---- MODULE Spec2Model ----
(***************************************************************************)
(* A model of src/bot.py: the per-user conversation store                  *)
(* (ConversationManager, generate_response, the chat / message / clear      *)
(* commands) and the image job pipeline (generate_image, the photo          *)
(* command).                                                                *)
(*                                                                         *)
(* The bot runs on one asyncio event loop: a coroutine runs without         *)
(* interruption from one await to the next.  Every action below is one      *)
(* such segment of a coroutine, or one step of an external collaborator     *)
(* (the inference backend, the image backend).                              *)
(***************************************************************************)
EXTENDS Integers, Sequences, FiniteSets, TLC

(***************************************************************************)
(* Bounds of the model and constants of the program.                       *)
(***************************************************************************)

\* conversation[-10:] in add_message
HistoryLimit == 10

\* The number of operations on the store (messages appended and histories
\* cleared, over all users) in one run of the model.
MaxOps == 11

\* The same for the ConversationManager used directly.
MaxStoreOps == 12

\* The number of GET /history requests of one job that the model counts: the
\* count stops there, the polls do not.
MaxPolls == 2

\* Appends and clears of the chat side when it runs beside the image side.
MaxBotOps == 1

\* The output node of the workflow, line 215, tested at line 241.
OutputNode == "9"

Jobs == {"j1", "j2"}
PromptIds == {"p1", "p2"}

Users == {"u1", "u2"}
ChatTasks == {"t1", "t2"}
Roles == {"user", "assistant"}

\* The text the except branch of generate_response returns.
Apology == "Sorry, I couldn't generate a response at this time."

VARIABLES
    conversations,  \* conversation_manager.conversations: user id -> list of messages
    appended,       \* history variable: per user, every message appended since the
                    \* user's history was last replaced by an empty list
    nops,           \* the number of appends and clears so far, over all users
    ct_pc,          \* per chat task: "idle", "awaiting" (suspended at line 101) or
                    \* "sending" (suspended at ctx.send, line 307 / 323 / 388)
    ct_user,        \* per chat task: user_id argument ("none" for None)
    ct_memory,      \* per chat task: with_memory argument
    ct_prompt,      \* per chat task: full_prompt, the prompt passed to generate
    ct_ret          \* per chat task: the value generate_response returned

VARIABLES
    ij_pc,          \* per image job: where generate_image / photo is suspended:
                    \* "idle", "post" (line 229), "poll" (line 235), "view" (line
                    \* 256), "sleep" (line 269), "cancelled" (the task was cancelled),
                    \* "returned" (generate_image has returned), "done" (photo has replied)
    ij_prompt_id,   \* per image job: prompt_id, "none" before line 232
    ij_image,       \* per image job: image_data as bound at line 242
    ij_view_query,  \* per image job: the query string of image_url, line 255
    ij_result,      \* per image job: the value generate_image returned
    ij_error,       \* per image job: the logger.error call the job made
    ij_posts,       \* per image job: number of POST /prompt requests issued
    ij_polls,       \* per image job: number of GET /history requests issued
                    \* (MaxPolls stands for MaxPolls or more)
    ij_views,       \* per image job: number of GET /view requests issued
    ij_sent,        \* per image job: what photo sent to the channel
    ij_last,        \* per image job: the reply it received last
    issued,         \* backend: the prompt ids it has handed out
    ledger          \* backend: the history entry of each prompt id

imgVars == <<ij_pc, ij_prompt_id, ij_image, ij_view_query, ij_result, ij_error,
             ij_posts, ij_polls, ij_views, ij_sent, ij_last, issued, ledger>>

chatVars == <<conversations, appended, nops, ct_pc, ct_user, ct_memory, ct_prompt, ct_ret>>
ctLocals == <<ct_pc, ct_user, ct_memory, ct_prompt, ct_ret>>

(***************************************************************************)
(* ConversationManager                                                     *)
(***************************************************************************)

Min(a, b) == IF a < b THEN a ELSE b

\* Position of the first occurrence of c in s, 0 when there is none.
RECURSIVE FindFrom(_, _, _)
FindFrom(s, c, i) ==
    IF i > Len(s) THEN 0
    ELSE IF s[i] = c THEN i
    ELSE FindFrom(s, c, i + 1)

Find(s, c) == FindFrom(s, c, 1)

\* s[-n:] of a Python list, n > 0
LastN(s, n) == SubSeq(s, Len(s) - Min(Len(s), n) + 1, Len(s))

Message(role, content) == [role |-> role, content |-> content]

\* The dictionary after get_conversation(user_id): the key is created lazily.
EnsureKey(convs, user_id) ==
    IF user_id \in DOMAIN convs THEN convs ELSE convs @@ (user_id :> <<>>)

\* The list get_conversation(user_id) returns.
get_conversation(convs, user_id) == EnsureKey(convs, user_id)[user_id]

\* The history stored for an identity, empty when it has no key.
History(u) == IF u \in DOMAIN conversations THEN conversations[u] ELSE <<>>

\* add_message with conversation[:10] in place of conversation[-10:].
add_message_head(convs, user_id, role, content) ==
    LET conversation == Append(get_conversation(convs, user_id), Message(role, content))
    IN  [EnsureKey(convs, user_id) EXCEPT
            ![user_id] = SubSeq(conversation, 1, Min(Len(conversation), HistoryLimit))]

\* The dictionary after add_message(user_id, role, content).
add_message(convs, user_id, role, content) ==
    LET conversation == Append(get_conversation(convs, user_id), Message(role, content))
    IN  [EnsureKey(convs, user_id) EXCEPT ![user_id] = LastN(conversation, HistoryLimit)]

\* The dictionary after conversation.append(...) on the list get_conversation
\* returned: the list is changed in place and the dictionary still holds it.
append_in_place(convs, user_id, role, content) ==
    [EnsureKey(convs, user_id) EXCEPT
        ![user_id] = Append(get_conversation(convs, user_id), Message(role, content))]

\* The key removed from the dictionary: conversations.pop(user_id, None).
clear_history_pop(convs, user_id) ==
    [v \in DOMAIN convs \ {user_id} |-> convs[v]]

\* The dictionary after the clear command's assignment.
clear_history(convs, user_id) ==
    [EnsureKey(convs, user_id) EXCEPT ![user_id] = <<>>]

\* f"{msg['role']}: {msg['content']}": a text is a sequence of strings, the
\* role, the separator and the content formatted as text.
Line(msg) == <<msg.role, ": ", ToString(msg.content)>>

\* Each line ended by a newline: "".join(line + "\n" for ...).
RECURSIVE Render_trailing(_)
Render_trailing(conversation) ==
    IF conversation = <<>> THEN <<>>
    ELSE Line(Head(conversation)) \o <<"\n">> \o Render_trailing(Tail(conversation))

\* Line 94: "\n".join of the lines of the messages, in stored order.
RECURSIVE Render(_)
Render(conversation) ==
    IF conversation = <<>> THEN <<>>
    ELSE IF Len(conversation) = 1 THEN Line(conversation[1])
    ELSE Line(Head(conversation)) \o <<"\n">> \o Render(Tail(conversation))

(***************************************************************************)
(* The history variable.  The code never inspects the content of a message, *)
(* so the texts are tokens: the k-th message appended for a user since the  *)
(* last clear carries the token k, which makes a lost, duplicated or        *)
(* reordered message visible.  Each entry also records which code path      *)
(* appended it.                                                             *)
(***************************************************************************)

NextText(user_id) == Len(appended[user_id]) + 1

Logged(user_id, role, content, via) ==
    [appended EXCEPT ![user_id] =
        Append(@, [role |-> role, content |-> content, via |-> via])]

\* The messages of a log, without the record of the code path.
Messages(log) == [i \in 1..Len(log) |-> Message(log[i].role, log[i].content)]

NoPrompt == [kind |-> "none", text |-> <<>>]

\* The text of a message passed on as it is; the code never looks into it.
RawText == <<"prompt">>

(***************************************************************************)
(* generate_response, one action per segment between awaits, and the       *)
(* command handlers chat / message / on_message that call it.              *)
(***************************************************************************)

\* The prompt rendered before the user message is appended.
generate_response_memory_render_first(t, user_id) ==
    LET prompt == NextText(user_id)
        convs  == append_in_place(conversations, user_id, "user", prompt)
    IN  /\ ct_pc[t] = "idle"
        /\ nops < MaxOps
        /\ conversations' = convs
        /\ appended' = Logged(user_id, "user", prompt, "in_place")
        /\ nops' = nops + 1
        /\ ct_prompt' = [ct_prompt EXCEPT ![t] =
               [kind |-> "rendered",
                text |-> Render(get_conversation(conversations, user_id))]]
        /\ ct_pc' = [ct_pc EXCEPT ![t] = "awaiting"]
        /\ ct_user' = [ct_user EXCEPT ![t] = user_id]
        /\ ct_memory' = [ct_memory EXCEPT ![t] = TRUE]
        /\ UNCHANGED ct_ret
        /\ UNCHANGED imgVars

\* Lines 90-101 with with_memory and user_id set: up to the await of generate.
generate_response_memory(t, user_id) ==
    LET prompt == NextText(user_id)
        convs  == append_in_place(conversations, user_id, "user", prompt)
    IN  /\ ct_pc[t] = "idle"
        /\ nops < MaxOps
        /\ conversations' = convs
        /\ appended' = Logged(user_id, "user", prompt, "in_place")
        /\ nops' = nops + 1
        /\ ct_prompt' = [ct_prompt EXCEPT ![t] =
                            [kind |-> "rendered", text |-> Render(convs[user_id])]]
        /\ ct_pc' = [ct_pc EXCEPT ![t] = "awaiting"]
        /\ ct_user' = [ct_user EXCEPT ![t] = user_id]
        /\ ct_memory' = [ct_memory EXCEPT ![t] = TRUE]
        /\ UNCHANGED ct_ret
        /\ UNCHANGED imgVars

\* Lines 90-101 otherwise: the raw prompt is sent, the store is not touched.
generate_response_oneshot(t) ==
    /\ ct_pc[t] = "idle"
    /\ ct_prompt' = [ct_prompt EXCEPT ![t] = [kind |-> "raw", text |-> RawText]]
    /\ ct_pc' = [ct_pc EXCEPT ![t] = "awaiting"]
    /\ ct_user' = [ct_user EXCEPT ![t] = "none"]
    /\ ct_memory' = [ct_memory EXCEPT ![t] = FALSE]
    /\ UNCHANGED <<conversations, appended, nops, ct_ret>>
    /\ UNCHANGED imgVars

\* generate_response returns: its arguments and locals are gone.
frame_ends(t) ==
    /\ ct_user' = [ct_user EXCEPT ![t] = "none"]
    /\ ct_memory' = [ct_memory EXCEPT ![t] = FALSE]
    /\ ct_prompt' = [ct_prompt EXCEPT ![t] = NoPrompt]

\* text.split(c): the pieces between the occurrences of c.
RECURSIVE SplitAll(_, _)
SplitAll(text, c) ==
    LET k == Find(text, c)
    IN  IF k = 0 THEN <<text>>
        ELSE <<SubSeq(text, 1, k - 1)>> \o SplitAll(SubSeq(text, k + 1, Len(text)), c)

\* The messages a rendered prompt was made of.
Unrender(text) ==
    LET lines == SplitAll(text, "\n")
    IN  [i \in 1..Len(lines) |->
            Message(lines[i][1], CHOOSE k \in 0..(MaxOps + 1) : ToString(k) = lines[i][3])]

\* Lines 103-104 writing back the list read before the await: the history
\* the prompt was rendered from, with the response appended.
response_path_stale(t, text) ==
    /\ conversations' =
          [EnsureKey(conversations, ct_user[t]) EXCEPT ![ct_user[t]] =
              LastN(Append(Unrender(ct_prompt[t].text), Message("assistant", text)),
                    HistoryLimit)]
    /\ appended' = Logged(ct_user[t], "assistant", text, "add_message")
    /\ nops' = nops + 1

\* Lines 103-104: the store after the inference call has returned `text`.
response_path(t, text) ==
    /\ conversations' = add_message(conversations, ct_user[t], "assistant", text)
    /\ appended' = Logged(ct_user[t], "assistant", text, "add_message")
    /\ nops' = nops + 1

\* Lines 101-106: the inference call returns a response.
generate_response_return(t) ==
    /\ ct_pc[t] = "awaiting"
    /\ IF ct_memory[t]
       THEN /\ nops < MaxOps
            /\ response_path(t, NextText(ct_user[t]))
       ELSE UNCHANGED <<conversations, appended, nops>>
    /\ ct_ret' = [ct_ret EXCEPT ![t] = "response"]
    /\ ct_pc' = [ct_pc EXCEPT ![t] = "sending"]
    /\ frame_ends(t)
    /\ UNCHANGED imgVars

\* The except branch taking back the user message the turn appended.
generate_response_except_rollback(t) ==
    /\ ct_pc[t] = "awaiting"
    /\ ct_ret' = [ct_ret EXCEPT ![t] = Apology]
    /\ ct_pc' = [ct_pc EXCEPT ![t] = "sending"]
    /\ frame_ends(t)
    /\ IF ct_memory[t] /\ History(ct_user[t]) # <<>>
       THEN conversations' = [conversations EXCEPT ![ct_user[t]] =
                                 SubSeq(@, 1, Len(@) - 1)]
       ELSE UNCHANGED conversations
    /\ UNCHANGED <<appended, nops>>
    /\ UNCHANGED imgVars

\* Lines 107-109: the inference call raises (or its reply has no 'response').
generate_response_except(t) ==
    /\ ct_pc[t] = "awaiting"
    /\ ct_ret' = [ct_ret EXCEPT ![t] = Apology]
    /\ ct_pc' = [ct_pc EXCEPT ![t] = "sending"]
    /\ frame_ends(t)
    /\ UNCHANGED <<conversations, appended, nops>>
    /\ UNCHANGED imgVars

\* Lines 307, 323, 388: the handler has sent the reply and ends.
send_reply(t) ==
    /\ ct_pc[t] = "sending"
    /\ ct_pc' = [ct_pc EXCEPT ![t] = "idle"]
    /\ ct_ret' = [ct_ret EXCEPT ![t] = "none"]
    /\ UNCHANGED <<conversations, appended, nops, ct_user, ct_memory, ct_prompt>>
    /\ UNCHANGED imgVars

\* The clear command, line 336.
clear_conversation(user_id) ==
    /\ conversations' = clear_history(conversations, user_id)
    /\ appended' = [appended EXCEPT ![user_id] = <<>>]
    /\ nops < MaxOps
    /\ nops' = nops + 1
    /\ UNCHANGED <<ct_pc, ct_user, ct_memory, ct_prompt, ct_ret>>
    /\ UNCHANGED imgVars

(***************************************************************************)
(* The ConversationManager used directly, as any caller may use it.        *)
(***************************************************************************)

\* get_conversation(user_id) called on its own: the key is created lazily.
store_get(user_id) ==
    /\ conversations' = EnsureKey(conversations, user_id)
    /\ conversations' # conversations
    /\ UNCHANGED <<appended, nops, ctLocals>>
    /\ UNCHANGED imgVars

\* add_message(user_id, "assistant", text) called on its own.
store_add(user_id) ==
    /\ nops < MaxStoreOps
    /\ conversations' = add_message(conversations, user_id, "assistant", NextText(user_id))
    /\ appended' = Logged(user_id, "assistant", NextText(user_id), "add_message")
    /\ nops' = nops + 1
    /\ UNCHANGED ctLocals
    /\ UNCHANGED imgVars

\* get_conversation(user_id).append(...): the caller changes the returned list.
store_append(user_id) ==
    /\ nops < MaxStoreOps
    /\ conversations' = append_in_place(conversations, user_id, "user", NextText(user_id))
    /\ appended' = Logged(user_id, "user", NextText(user_id), "in_place")
    /\ nops' = nops + 1
    /\ UNCHANGED ctLocals
    /\ UNCHANGED imgVars

(***************************************************************************)
(* generate_image: strings, base64 and the file-view URL.                  *)
(* A string is a sequence of one-character strings.                        *)
(***************************************************************************)

\* s.split(c, 1): one or two pieces.
Split1(s, c) ==
    LET k == Find(s, c)
    IN  IF k = 0 THEN <<s>>
        ELSE <<SubSeq(s, 1, k - 1), SubSeq(s, k + 1, Len(s))>>

\* The base64 alphabet: the character of value v is B64Alphabet[v + 1].
B64Alphabet ==
    << "A", "B", "C", "D", "E", "F", "G", "H", "I", "J", "K", "L", "M",
       "N", "O", "P", "Q", "R", "S", "T", "U", "V", "W", "X", "Y", "Z",
       "a", "b", "c", "d", "e", "f", "g", "h", "i", "j", "k", "l", "m",
       "n", "o", "p", "q", "r", "s", "t", "u", "v", "w", "x", "y", "z",
       "0", "1", "2", "3", "4", "5", "6", "7", "8", "9", "+", "/" >>

\* The value of each character of the base64 alphabet.
B64Table == [c \in {B64Alphabet[i] : i \in 1..Len(B64Alphabet)} |-> Find(B64Alphabet, c) - 1]

\* The value of a character of the base64 alphabet, 64 for any other character.
B64Value(c) == IF c \in DOMAIN B64Table THEN B64Table[c] ELSE 64

\* A character outside ASCII, such as e with an acute accent.  Every other
\* element of a text is an ASCII character.
NonAscii == "U+00E9"

\* s.encode('ascii') succeeds.
IsAsciiText(s) == \A i \in 1..Len(s) : s[i] # NonAscii

\* binascii.a2b_base64 in its default (non-strict) mode, as base64.b64decode
\* calls it: characters outside the alphabet are skipped, a complete pad
\* sequence ends the input, and leftover characters of a quad are an error.
RECURSIVE B64Scan(_, _, _, _, _, _)
B64Scan(s, i, quad_pos, leftchar, pads, out) ==
    IF i > Len(s)
    THEN [ok |-> quad_pos = 0, bytes |-> IF quad_pos = 0 THEN out ELSE <<>>]
    ELSE IF s[i] = "="
    THEN IF quad_pos >= 2 /\ quad_pos + pads + 1 >= 4
         THEN [ok |-> TRUE, bytes |-> out]
         ELSE B64Scan(s, i + 1, quad_pos, leftchar,
                      IF quad_pos >= 2 THEN pads + 1 ELSE pads, out)
    ELSE IF B64Value(s[i]) >= 64
    THEN B64Scan(s, i + 1, quad_pos, leftchar, pads, out)
    ELSE LET v == B64Value(s[i])
         IN  CASE quad_pos = 0 -> B64Scan(s, i + 1, 1, v, 0, out)
               [] quad_pos = 1 ->
                    B64Scan(s, i + 1, 2, v % 16, 0, Append(out, leftchar * 4 + v \div 16))
               [] quad_pos = 2 ->
                    B64Scan(s, i + 1, 3, v % 4, 0, Append(out, leftchar * 16 + v \div 4))
               [] OTHER ->
                    B64Scan(s, i + 1, 0, 0, 0, Append(out, leftchar * 64 + v))

\* base64.b64decode(s) of a str: the text is encoded as ASCII first, which
\* raises ValueError for a character outside ASCII, then scanned.
b64decode(s) ==
    IF IsAsciiText(s) THEN B64Scan(s, 1, 0, 0, 0, <<>>)
    ELSE [ok |-> FALSE, bytes |-> <<>>]

\* The exception base64.b64decode(s) raises when it fails.
b64decode_error(s) == IF IsAsciiText(s) THEN "binascii.Error" ELSE "ValueError"

\* The key names of line 255, character by character.
FilenameKey == <<"f", "i", "l", "e", "n", "a", "m", "e">>
SubfolderKey == <<"s", "u", "b", "f", "o", "l", "d", "e", "r">>

\* Line 255: the query string of image_url, filename and subfolder pasted in
\* as they are.
ViewQuery(filename, subfolder) ==
    FilenameKey \o <<"=">> \o filename \o <<"&">> \o SubfolderKey \o <<"=">> \o subfolder

\* What the HTTP client sends: the fragment (from the first '#') is not sent.
SentQuery(q) ==
    LET k == Find(q, "#")
    IN  IF k = 0 THEN q ELSE SubSeq(q, 1, k - 1)


(***************************************************************************)
(* generate_image: values.                                                 *)
(***************************************************************************)

NoImage == [shape |-> "none", s |-> <<>>, filename |-> <<>>, subfolder |-> <<>>]

\* output_data['9'] without a usable ['images'][0]: line 242 raises KeyError
\* when the key 'images' is missing, IndexError when the list is empty,
\* TypeError when the value is null.
NoImagesList(why) == [shape |-> why, s |-> <<>>, filename |-> <<>>, subfolder |-> <<>>]

NoImagesShapes == {"images_missing", "images_empty", "images_null"}

\* The exception line 242 raises for such an output.
images_error(shape) ==
    CASE shape = "images_missing" -> "KeyError"
      [] shape = "images_empty" -> "IndexError"
      [] OTHER -> "TypeError"

StrImage(s) == [shape |-> "str", s |-> s, filename |-> <<>>, subfolder |-> <<>>]

FileRef(filename, subfolder) ==
    [shape |-> "fileref", s |-> <<>>, filename |-> filename, subfolder |-> subfolder]

\* A dict without both 'filename' and 'subfolder', such as {"foo": "bar"}.
OtherDict == [shape |-> "dict_other", s |-> <<>>, filename |-> <<>>, subfolder |-> <<>>]

\* Neither a str nor a dict: a list, a number, null.
OtherType == [shape |-> "other_type", s |-> <<>>, filename |-> <<>>, subfolder |-> <<>>]

\* "a,b,QQ==" (a header, then a text with a comma that decodes to two bytes),
\* "QUI=" (no header, base64 of "AB"), "d,QUI" (a header, then base64 with
\* its padding missing), "d,QQ==" followed by a character outside ASCII.
InlineStrings ==
    { <<"a", ",", "b", ",", "Q", "Q", "=", "=">>,
      <<"Q", "U", "I", "=">>,
      <<"d", ",", "Q", "U", "I">>,
      <<"d", ",", "Q", "Q", "=", "=", NonAscii>> }

FileNames == { <<"a">>, <<"a", "&", "b">> }
SubFolders == { <<>>, <<"x">> }

Images ==
    {NoImagesList(why) : why \in NoImagesShapes} \cup {OtherDict, OtherType}
        \cup {StrImage(s) : s \in InlineStrings}
        \cup {FileRef(f, d) : f \in FileNames, d \in SubFolders}

\* Bodies of a GET /view response.
Bodies == { <<>>, <<137, 80>> }

\* The backend's history for one prompt id: no entry; an entry without
\* 'outputs'; an entry whose outputs are empty, hold other nodes only, or hold
\* the output node.
Entry(state, image) == [state |-> state, image |-> image]
AbsentEntry == Entry("absent", NoImage)

Pending == [tag |-> "pending", data |-> <<>>]
None == [tag |-> "None", data |-> <<>>]
BytesIO(data) == [tag |-> "BytesIO", data |-> data]

\* The logger.error call a failed job made: its line, and for line 274 the
\* exception `e` that line 273 caught ("none" at the other lines, which log a
\* status or the payload).
NoError == [line |-> 0, exc |-> "none"]
ErrorAt(line, exc) == [line |-> line, exc |-> exc]

\* The exceptions a request raises when it fails in transport: an
\* aiohttp.ClientError (connection refused, reset, DNS), or the TimeoutError
\* of the session's timeout on one request.
TransportErrors == {"ClientError", "TimeoutError"}

Inc(n) == IF n < MaxPolls THEN n + 1 ELSE MaxPolls

(***************************************************************************)
(* generate_image and photo, one action per segment between awaits.        *)
(***************************************************************************)

\* The reply a job received last: to which request, how it ended, and for a
\* GET /history answered with JSON, what the body held for the prompt id.
Reply(req, reply, body) == [req |-> req, reply |-> reply, body |-> body]
NoReply == Reply("none", "none", "none")

received(j, req, reply, body) ==
    ij_last' = [ij_last EXCEPT ![j] = Reply(req, reply, body)]

\* logger.error without the return: the job goes on to line 269.
fail_continue(j, line, exc) ==
    /\ ij_pc' = [ij_pc EXCEPT ![j] = "sleep"]
    /\ ij_result' = [ij_result EXCEPT ![j] = None]
    /\ ij_error' = [ij_error EXCEPT ![j] = ErrorAt(line, exc)]

\* generate_image returns None after logger.error: lines 260-261, 263-264,
\* 266-267, 271-272 and 274-275.
fail(j, line, exc) ==
    /\ ij_pc' = [ij_pc EXCEPT ![j] = "returned"]
    /\ ij_result' = [ij_result EXCEPT ![j] = None]
    /\ ij_error' = [ij_error EXCEPT ![j] = ErrorAt(line, exc)]

\* Line 268: return BytesIO(image_data).
succeed(j, data) ==
    /\ ij_pc' = [ij_pc EXCEPT ![j] = "returned"]
    /\ ij_result' = [ij_result EXCEPT ![j] = BytesIO(data)]
    /\ UNCHANGED ij_error

\* Line 235: GET /history/{prompt_id} is issued.
issue_poll(j) ==
    /\ ij_pc' = [ij_pc EXCEPT ![j] = "poll"]
    /\ ij_polls' = [ij_polls EXCEPT ![j] = Inc(@)]
    /\ UNCHANGED <<ij_result, ij_error>>

\* The next GET /history issued at once, without the sleep of line 269.
sleep_skipped(j) ==
    /\ ij_pc' = [ij_pc EXCEPT ![j] = "poll"]
    /\ UNCHANGED <<ij_result, ij_error>>

\* The call given up in place of the sleep of line 269.
sleep_gives_up(j) == fail(j, 274, "none")

\* Line 269: await asyncio.sleep(1).
sleep(j) ==
    /\ ij_pc' = [ij_pc EXCEPT ![j] = "sleep"]
    /\ UNCHANGED <<ij_result, ij_error>>

\* POST /prompt sent again after a status other than 200.
submit_rejected_retry(j) ==
    /\ ij_pc' = [ij_pc EXCEPT ![j] = "post"]
    /\ ij_posts' = [ij_posts EXCEPT ![j] = @ + 1]
    /\ UNCHANGED <<ij_result, ij_error, ij_prompt_id, issued, ij_polls>>

\* Lines 270-272: POST /prompt answered with a status other than 200.
submit_rejected(j) ==
    /\ fail(j, 271, "none")
    /\ UNCHANGED <<ij_prompt_id, issued, ij_polls, ij_posts>>

\* Lines 273-275 for an exception raised in lines 229-232.
submit_raises(j, exc) ==
    /\ fail(j, 274, exc)
    /\ UNCHANGED <<ij_prompt_id, issued, ij_polls, ij_posts>>

\* An exception of a poll caught inside the loop: the loop goes on.
poll_raises_ignored(j, exc) == sleep(j)

\* Lines 273-275 for an exception raised in lines 235-242.
poll_raises(j, exc) == fail(j, 274, exc)

\* photo, line 360, and generate_image up to line 229: POST /prompt is issued.
photo(j) ==
    /\ ij_pc[j] = "idle"
    /\ ij_pc' = [ij_pc EXCEPT ![j] = "post"]
    /\ ij_posts' = [ij_posts EXCEPT ![j] = @ + 1]
    /\ UNCHANGED <<ij_prompt_id, ij_image, ij_view_query, ij_result, ij_error,
                   ij_polls, ij_views, ij_sent, ij_last, issued, ledger>>
    /\ UNCHANGED chatVars

\* Lines 229-235: the reply to POST /prompt.
post_response(j, reply) ==
    /\ ij_pc[j] = "post"
    /\ received(j, "post", reply, "none")
    /\ CASE reply = "ok" ->
              \E pid \in PromptIds \ issued :
                  /\ ij_prompt_id' = [ij_prompt_id EXCEPT ![j] = pid]
                  /\ issued' = issued \cup {pid}
                  /\ issue_poll(j)
                  /\ UNCHANGED ij_posts
         [] reply = "bad_status" -> submit_rejected(j)
         [] reply = "transport_error" ->
              \E exc \in TransportErrors : submit_raises(j, exc)
         [] reply = "bad_json" -> submit_raises(j, "JSONError")
         [] reply = "no_prompt_id" -> submit_raises(j, "KeyError")
    /\ UNCHANGED <<ij_image, ij_view_query, ij_views, ij_sent, ledger>>
    /\ UNCHANGED chatVars

PostReplies == {"ok", "bad_status", "transport_error", "bad_json", "no_prompt_id"}

\* Line 238: if prompt_id in history_data.
has_entry(entry) == entry.state # "absent"

\* The test of line 238 taken for the test of line 241.
has_output_any(entry) == entry.state # "absent"

\* Line 241: if output_data and '9' in output_data.
has_output(entry) == entry.state = "node9"

\* The entry of some other prompt id read in place of the job's own.
history_entry_other(j) ==
    ledger[CHOOSE p \in PromptIds : p # ij_prompt_id[j]]

\* Lines 234-239: the history is asked for the job's own prompt_id and the
\* entry read is history_data[prompt_id].
history_entry(j) == ledger[ij_prompt_id[j]]

\* The unexpected format logged and the poll loop resumed.
unexpected_format_resume(j, line) == sleep(j)

\* Lines 262-264 and 265-267: "Unexpected image data format / type"; return None.
unexpected_format(j, line) == fail(j, line, "none")

\* Lines 242-268, run in the segment of the poll reply: image_data is bound
\* and turned into bytes, or GET /view is issued.
extract(j, image) ==
    LET parts == Split1(image.s, ",")
    IN  /\ ij_image' = [ij_image EXCEPT ![j] = image]
        /\ CASE image.shape = "str" ->
                  /\ IF Len(parts) < 2
                     THEN fail(j, 274, "IndexError")
                     ELSE IF ~b64decode(parts[2]).ok
                     THEN fail(j, 274, b64decode_error(parts[2]))
                     ELSE succeed(j, b64decode(parts[2]).bytes)
                  /\ UNCHANGED <<ij_view_query, ij_views>>
             [] image.shape = "fileref" ->
                  /\ ij_view_query' = [ij_view_query EXCEPT ![j] =
                                          ViewQuery(image.filename, image.subfolder)]
                  /\ ij_views' = [ij_views EXCEPT ![j] = @ + 1]
                  /\ ij_pc' = [ij_pc EXCEPT ![j] = "view"]
                  /\ UNCHANGED <<ij_result, ij_error>>
             [] image.shape = "dict_other" ->
                  /\ unexpected_format(j, 263)
                  /\ UNCHANGED <<ij_view_query, ij_views>>
             [] OTHER ->
                  /\ unexpected_format(j, 266)
                  /\ UNCHANGED <<ij_view_query, ij_views>>

\* The reply leaves image_data unbound and no GET /view is issued.
no_image(j) == UNCHANGED <<ij_image, ij_view_query, ij_views>>

\* Lines 235-269: the reply to GET /history/{prompt_id}, up to the next await
\* (the sleep of line 269, the GET /view of line 256) or the return.
poll_response(j, reply) ==
    LET entry == history_entry(j)
    IN  /\ ij_pc[j] = "poll"
        /\ received(j, "poll", reply, IF reply = "ok" THEN entry.state ELSE "none")
        /\ CASE reply = "transport_error" ->
                  (\E exc \in TransportErrors : poll_raises(j, exc)) /\ no_image(j)
             [] reply = "bad_json" ->
                  poll_raises(j, "JSONError") /\ no_image(j)
             [] reply = "bad_status" ->
                  sleep(j) /\ no_image(j)
             [] reply = "ok" ->
                  IF ~has_entry(entry)
                  THEN sleep(j) /\ no_image(j)
                  ELSE IF entry.state = "no_outputs"
                  THEN poll_raises(j, "KeyError") /\ no_image(j)
                  ELSE IF ~has_output(entry)
                  THEN sleep(j) /\ no_image(j)
                  ELSE IF entry.image.shape \in NoImagesShapes
                  THEN poll_raises(j, images_error(entry.image.shape)) /\ no_image(j)
                  ELSE extract(j, entry.image)
        /\ UNCHANGED <<ij_prompt_id, ij_posts, ij_polls, ij_sent, issued, ledger>>
        /\ UNCHANGED chatVars

PollReplies == {"ok", "bad_status", "transport_error", "bad_json"}

\* Lines 256-261 and 268: the reply to GET /view.
view_response(j, reply, body) ==
    /\ ij_pc[j] = "view"
    /\ received(j, "view", reply, "none")
    /\ CASE reply = "ok" -> succeed(j, body)
         [] reply = "bad_status" -> fail(j, 260, "none")
         [] OTHER -> \E exc \in TransportErrors : fail(j, 274, exc)
    /\ UNCHANGED <<ij_prompt_id, ij_image, ij_view_query, ij_posts, ij_polls, ij_views,
                   ij_sent, issued, ledger>>
    /\ UNCHANGED chatVars

ViewReplies == {"ok", "bad_status", "transport_error"}

\* Lines 269 and 235: the sleep ends and the next GET /history is issued.
wake(j) ==
    /\ ij_pc[j] = "sleep"
    /\ issue_poll(j)
    /\ UNCHANGED <<ij_prompt_id, ij_image, ij_view_query, ij_posts, ij_views,
                   ij_sent, ij_last, issued, ledger>>
    /\ UNCHANGED chatVars

\* photo, lines 361-364: a file when image_data is truthy, else the apology.
\* A BytesIO object is truthy whatever it holds.
photo_send(j) ==
    /\ ij_pc[j] = "returned"
    /\ ij_pc' = [ij_pc EXCEPT ![j] = "done"]
    /\ ij_sent' = [ij_sent EXCEPT ![j] =
                      IF ij_result[j].tag = "BytesIO" THEN "file" ELSE "sorry"]
    /\ UNCHANGED <<ij_prompt_id, ij_image, ij_view_query, ij_result, ij_error,
                   ij_posts, ij_polls, ij_views, ij_last, issued, ledger>>
    /\ UNCHANGED chatVars

\* CancelledError caught by the handler of lines 273-275, as an Exception is.
cancelled_absorbed(j) == fail(j, 274, "CancelledError")

\* CancelledError is raised at the await the job is suspended in.  It is a
\* BaseException, so `except Exception` (line 273) lets it pass: it leaves
\* generate_image and photo, nothing is logged, returned or sent.
cancelled(j) ==
    /\ ij_pc' = [ij_pc EXCEPT ![j] = "cancelled"]
    /\ UNCHANGED <<ij_result, ij_error>>

\* The request or sleep a job is suspended in.
Awaited(j) == IF ij_pc[j] = "returned" THEN "send" ELSE ij_pc[j]

\* The task running photo is cancelled while it is suspended at an await.
cancel(j) ==
    /\ ij_pc[j] \in {"post", "poll", "sleep", "view", "returned"}
    /\ received(j, Awaited(j), "cancelled", "none")
    /\ cancelled(j)
    /\ UNCHANGED <<ij_prompt_id, ij_image, ij_view_query, ij_posts, ij_polls, ij_views,
                   ij_sent, issued, ledger>>
    /\ UNCHANGED chatVars

\* The image backend works on a job it accepted: the history entry appears,
\* with or without the output node, and the output node may appear later.
backend_progress(pid, entry) ==
    /\ pid \in issued
    /\ \/ ledger[pid].state = "absent"
       \/ ledger[pid].state \in {"empty", "other_nodes"} /\ entry.state = "node9"
    /\ ledger' = [ledger EXCEPT ![pid] = entry]
    /\ UNCHANGED <<ij_pc, ij_prompt_id, ij_image, ij_view_query, ij_result, ij_error,
                   ij_posts, ij_polls, ij_views, ij_sent, ij_last, issued>>
    /\ UNCHANGED chatVars

Entries ==
    {Entry(st, NoImage) : st \in {"no_outputs", "empty", "other_nodes"}}
        \cup {Entry("node9", im) : im \in Images}

(***************************************************************************)
(* Specifications                                                          *)
(***************************************************************************)

vars == <<conversations, appended, nops, ct_pc, ct_user, ct_memory, ct_prompt, ct_ret,
          ij_pc, ij_prompt_id, ij_image, ij_view_query, ij_result, ij_error,
          ij_posts, ij_polls, ij_views, ij_sent, ij_last, issued, ledger>>

Init ==
    /\ conversations = <<>>
    /\ appended = [u \in Users |-> <<>>]
    /\ nops = 0
    /\ ct_pc = [t \in ChatTasks |-> "idle"]
    /\ ct_user = [t \in ChatTasks |-> "none"]
    /\ ct_memory = [t \in ChatTasks |-> FALSE]
    /\ ct_prompt = [t \in ChatTasks |-> NoPrompt]
    /\ ct_ret = [t \in ChatTasks |-> "none"]
    /\ ij_pc = [j \in Jobs |-> "idle"]
    /\ ij_prompt_id = [j \in Jobs |-> "none"]
    /\ ij_image = [j \in Jobs |-> NoImage]
    /\ ij_view_query = [j \in Jobs |-> <<>>]
    /\ ij_result = [j \in Jobs |-> Pending]
    /\ ij_error = [j \in Jobs |-> NoError]
    /\ ij_posts = [j \in Jobs |-> 0]
    /\ ij_polls = [j \in Jobs |-> 0]
    /\ ij_views = [j \in Jobs |-> 0]
    /\ ij_sent = [j \in Jobs |-> "none"]
    /\ ij_last = [j \in Jobs |-> NoReply]
    /\ issued = {}
    /\ ledger = [p \in PromptIds |-> AbsentEntry]

\* The bot's chat side: chat (or a mention), message and clear commands.
ChatNext ==
    \/ \E t \in ChatTasks, u \in Users : generate_response_memory(t, u)
    \/ \E t \in ChatTasks : generate_response_oneshot(t)
    \/ \E t \in ChatTasks : generate_response_return(t)
    \/ \E t \in ChatTasks : generate_response_except(t)
    \/ \E t \in ChatTasks : send_reply(t)
    \/ \E u \in Users : clear_conversation(u)

SpecChat == Init /\ [][ChatNext]_vars

\* The ConversationManager under any sequence of calls.
StoreNext ==
    \/ \E u \in Users : store_get(u)
    \/ \E u \in Users : store_add(u)
    \/ \E u \in Users : store_append(u)
    \/ \E u \in Users : clear_conversation(u)

SpecStore == Init /\ [][StoreNext]_vars

\* One job's own steps: each is the end of an await.
JobStep(j) ==
    \/ \E reply \in PostReplies : post_response(j, reply)
    \/ \E reply \in PollReplies : poll_response(j, reply)
    \/ \E reply \in ViewReplies, body \in Bodies : view_response(j, reply, body)
    \/ wake(j)
    \/ photo_send(j)

\* The bot's image side: photo commands and the image backend.
ImageNext ==
    \/ \E j \in Jobs : photo(j)
    \/ \E j \in Jobs : JobStep(j)
    \/ \E pid \in PromptIds, entry \in Entries : backend_progress(pid, entry)

SpecImage == Init /\ [][ImageNext]_vars

\* Every await of a job ends: the request is answered or fails, the sleep
\* ends.  Nothing obliges the backend to finish a job.
SpecImageFair == SpecImage /\ \A j \in Jobs : WF_vars(JobStep(j))

\* The image side with callers that may abandon a call.
ImageCancelNext ==
    \/ ImageNext
    \/ \E j \in Jobs : cancel(j)

SpecImageCancel == Init /\ [][ImageCancelNext]_vars

\* Chat turns and image jobs side by side, on a few inputs: one chat task
\* of one user and MaxBotOps appends or clears, two image jobs and two
\* history entries.
BotEntries ==
    { Entry("node9", StrImage(<<"a", ",", "b", ",", "Q", "Q", "=", "=">>)),
      Entry("node9", FileRef(<<"a">>, <<"x">>)) }

BotNext ==
    \/ nops < MaxBotOps /\ generate_response_memory("t1", "u1")
    \/ generate_response_oneshot("t1")
    \/ generate_response_return("t1")
    \/ generate_response_except("t1")
    \/ send_reply("t1")
    \/ nops < MaxBotOps /\ clear_conversation("u1")
    \/ \E j \in Jobs : photo(j)
    \/ \E j \in Jobs : JobStep(j)
    \/ \E pid \in PromptIds, entry \in BotEntries : backend_progress(pid, entry)

SpecBot == Init /\ [][BotNext]_vars

Next == ChatNext \/ ImageCancelNext

Spec == Init /\ [][Next]_vars

(***************************************************************************)
(* Properties                                                              *)
(***************************************************************************)

IsSuffix(s, t) == Len(s) <= Len(t) /\ s = SubSeq(t, Len(t) - Len(s) + 1, Len(t))

\* The history of a user, empty when the user has no key yet.

Roles4(log) == [i \in 1..4 |-> log[Len(log) - 4 + i].role]

\* The two chat tasks ran their turns for u at the same time and both have
\* finished: the log of u ends user, user, assistant, assistant.
BothFinished(u) ==
    /\ Len(appended[u]) >= 4
    /\ Roles4(appended[u]) = <<"user", "user", "assistant", "assistant">>
    /\ \A t \in ChatTasks : ct_pc[t] # "awaiting"

\* C1: the stored history of every user has at most 10 entries in every
\* reachable state, whatever the interleaving of chat turns and clears and
\* whether or not the inference calls succeed.
C1_HistoryAtMostTen ==
    \A u \in DOMAIN conversations : Len(conversations[u]) <= HistoryLimit

\* C2: after an add_message the history is exactly the last 10 (or fewer,
\* when fewer exist) of the messages appended so far, in the order they were
\* appended, the newest last; this holds for a run of add_message calls from
\* an empty history and for an add_message onto a history of any length.
C2_LastTenInOrder ==
    \A u \in Users :
        /\ IsSuffix(History(u), Messages(appended[u]))
        /\ (Len(appended[u]) > 0 /\ appended[u][Len(appended[u])].via = "add_message")
              => History(u) = LastN(Messages(appended[u]), HistoryLimit)

\* More than 10 add_message calls from an empty history: the oldest is gone.
C2_Witness ==
    \E u \in Users :
        /\ Len(appended[u]) > HistoryLimit
        /\ \A i \in 1..Len(appended[u]) : appended[u][i].via = "add_message"
        /\ Len(History(u)) = HistoryLimit
        /\ History(u)[1].content = Len(appended[u]) - HistoryLimit + 1
        /\ History(u)[HistoryLimit].content = Len(appended[u])

\* An add_message onto a history of 11 entries drops two entries at once.
C2_WitnessLong ==
    \E u \in Users :
        /\ Len(appended[u]) = HistoryLimit + 2
        /\ \A i \in 1..(HistoryLimit + 1) : appended[u][i].via = "in_place"
        /\ appended[u][HistoryLimit + 2].via = "add_message"
        /\ Len(History(u)) = HistoryLimit

\* C3: no append is lost when chat turns for one user overlap: the history
\* is always a suffix of the messages appended for the user, in their order,
\* with at least min(10, number appended) entries, and once two overlapping
\* turns have both finished it is exactly the last 10 of them.
C3_NoLostAppend ==
    \A u \in Users :
        /\ IsSuffix(History(u), Messages(appended[u]))
        /\ Len(History(u)) >= Min(HistoryLimit, Len(appended[u]))
        /\ BothFinished(u) => History(u) = LastN(Messages(appended[u]), HistoryLimit)

\* Two overlapping turns for one user have finished with more than 10
\* messages appended: the cap has applied.
C3_Witness ==
    \E u \in Users :
        /\ BothFinished(u)
        /\ Len(appended[u]) > HistoryLimit
        /\ Len(History(u)) = HistoryLimit

(***************************************************************************)
(* Properties of generate_image                                            *)
(***************************************************************************)

Returned(j) == ij_pc[j] \in {"returned", "done"}

\* The call's outcome is a failure.
Failed(j) == ij_result[j] = None

\* The code has no failure kinds: it returns None for every failure and logs
\* a text.  FailureKind is the taxonomy of the design applied to the cause of
\* a failure, that is to the request that failed and how its reply ended,
\* together with the logger.error line taken.  A timeout of one request is a
\* transport failure.  The kind Timeout of the design (the polling budget
\* spent) has no cause in the code, which has no such budget.
FailureKind(e, last) ==
    CASE e.line = 271 -> "BackendRejected"
      [] e.line = 260 -> "RetrievalFailed"
      [] e.line \in {263, 266} -> "MalformedPayload"
      [] e.line = 274 /\ last.reply = "transport_error" /\ last.req = "view" ->
            "RetrievalFailed"
      [] e.line = 274 /\ last.reply = "transport_error" -> "BackendUnavailable"
      [] e.line = 274 -> "MalformedPayload"
      [] OTHER -> "none"

Kind(j) == FailureKind(ij_error[j], ij_last[j])

\* The state of a job in the terms of the design.
Phase(j) ==
    CASE ij_result[j] = None -> "Failed"
      [] ij_result[j].tag = "BytesIO" -> "BytesAvailable"
      [] ij_pc[j] = "idle" -> "NotStarted"
      [] ij_pc[j] = "post" -> "Submitted"
      [] ij_pc[j] \in {"poll", "sleep"} -> "Polling"
      [] ij_pc[j] = "view" -> "Extracting"
      [] OTHER -> "Cancelled"

\* The job has been Ready: a poll reply held its output and lines 242-268
\* have run, which bind image_data and end in a result or in a GET /view.
Extracted(j) ==
    \/ ij_image[j] # NoImage
    \/ ij_views[j] > 0
    \/ ij_result[j].tag = "BytesIO"

\* The transitions of a job from one await to the next.  The code is never
\* suspended in Ready: the segment of the poll reply that makes the job Ready
\* goes on to the GET /view (Extracting) or, for any other payload, through
\* Extracting to the result.
Transitions ==
    { <<"NotStarted", "Submitted">>,
      <<"Submitted", "Polling">>, <<"Submitted", "Failed">>,
      <<"Polling", "Failed">>,
      <<"Polling", "Extracting">>, <<"Polling", "BytesAvailable">>,
      <<"Extracting", "BytesAvailable">>, <<"Extracting", "Failed">> }

OutputNodeInLedger(j) ==
    /\ ij_prompt_id[j] # "none"
    /\ has_output(ledger[ij_prompt_id[j]])

\* C4: when the backend has accepted the job and the ledger never holds the
\* output node for its prompt id, the poll loop ends (with a timeout): the
\* call eventually returns.
C4_PollingTimesOut ==
    \A j \in Jobs :
        (<>(ij_pc[j] = "poll") /\ []~OutputNodeInLedger(j)) => <>Returned(j)

\* C5: a job has been Ready only on a poll reply whose body holds the entry
\* of its prompt id with the output node '9' in its outputs; after a reply
\* whose entry lacks the output node (outputs empty, or other nodes only) the
\* job is still polling and has no result.
C5_ReadyOnlyOnOutputNode ==
    \A j \in Jobs :
        /\ Extracted(j) =>
              /\ has_output(ledger[ij_prompt_id[j]])
              /\ ij_last[j].req = "poll" => ij_last[j] = Reply("poll", "ok", "node9")
        /\ (ij_last[j].req = "poll" /\ ij_last[j].reply = "ok"
               /\ ij_last[j].body \in {"empty", "other_nodes"})
              => (ij_pc[j] \in {"sleep", "poll"} /\ ij_result[j] = Pending)

\* One job was Ready after more than one poll, another sleeps after a reply
\* whose entry had no output node.
C5_Witness ==
    \E j, k \in Jobs :
        /\ Extracted(j) /\ ij_last[j] = Reply("poll", "ok", "node9")
        /\ ij_polls[j] >= 2
        /\ ij_pc[k] = "sleep" /\ ij_last[k] = Reply("poll", "ok", "empty")

\* C6: a job moves only along Submitted -> Polling -> {Ready, Failed},
\* Ready -> Extracting -> {BytesAvailable, Failed}, where Ready is passed
\* within the step of the poll reply that holds the output; a started call
\* has issued exactly one POST /prompt; a failed job is at rest, stays failed,
\* and issues no further request.
C6_JobStateMachine ==
    [][\A j \in Jobs :
          /\ Phase(j)' # Phase(j) => <<Phase(j), Phase(j)'>> \in Transitions
          /\ (Phase(j) = "Polling" /\ Phase(j)' \in {"Extracting", "BytesAvailable"})
                => /\ ij_last'[j] = Reply("poll", "ok", "node9")
                   /\ ij_image'[j] = ledger[ij_prompt_id[j]].image
                   /\ Phase(j)' = "Extracting" <=> ij_image'[j].shape = "fileref"
          /\ ~Extracted(j) /\ Extracted(j)' => Phase(j) = "Polling"
          /\ Phase(j)' # "NotStarted" => ij_posts'[j] = 1
          /\ Failed(j)' => Returned(j)'
          /\ Failed(j) =>
                /\ Failed(j)'
                /\ ij_posts'[j] = ij_posts[j]
                /\ ij_polls'[j] = ij_polls[j]
                /\ ij_views'[j] = ij_views[j]]_vars

\* A job that failed after polling has been answered by photo, and another
\* job has its bytes from the file-view fetch.
C6_Witness ==
    \E j, k \in Jobs :
        /\ Failed(j) /\ ij_pc[j] = "done" /\ ij_polls[j] >= 1
        /\ Phase(k) = "BytesAvailable" /\ ij_views[k] = 1 /\ ij_posts[k] = 1

\* C7: after a non-success status of POST /prompt the call has ended with
\* BackendRejected, after a transport failure with BackendUnavailable; one
\* POST was issued, no GET /history and no GET /view.
C7_SubmitFailureIsTerminal ==
    \A j \in Jobs :
        /\ ij_last[j] = Reply("post", "bad_status", "none")
              => (Returned(j) /\ Failed(j) /\ Kind(j) = "BackendRejected")
        /\ ij_last[j] = Reply("post", "transport_error", "none")
              => (Returned(j) /\ Failed(j) /\ Kind(j) = "BackendUnavailable")
        /\ (ij_last[j].req = "post" /\ ij_last[j].reply \in {"bad_status", "transport_error"})
              => (ij_posts[j] = 1 /\ ij_polls[j] = 0 /\ ij_views[j] = 0
                    /\ ij_prompt_id[j] = "none")

\* One call was rejected, another could not reach the backend; photo has
\* answered both.
C7_Witness ==
    \E j, k \in Jobs :
        /\ ij_last[j] = Reply("post", "bad_status", "none") /\ ij_pc[j] = "done"
        /\ ij_last[k] = Reply("post", "transport_error", "none") /\ ij_pc[k] = "done"

\* C8: the value returned to the caller tells the failure kinds apart: two
\* calls that failed for different kinds have different results.
C8_KindsDistinguished ==
    \A j, k \in Jobs :
        (Returned(j) /\ Returned(k) /\ Failed(j) /\ Failed(k) /\ Kind(j) # Kind(k))
            => ij_result[j] # ij_result[k]

\* A reply that is a failure of the call.
FailingReply(j) ==
    \/ ij_last[j].reply \in {"transport_error", "bad_json", "no_prompt_id"}
    \/ ij_last[j].req \in {"post", "view"} /\ ij_last[j].reply = "bad_status"
    \/ ij_last[j].req = "poll" /\ ij_last[j].body = "no_outputs"

\* The part of C8 the code keeps: no failure is swallowed.  A failing reply
\* ends the call with None, None is returned exactly when logger.error was
\* called, and photo answers None with the apology and bytes with the file.
FailureNotSwallowed ==
    \A j \in Jobs :
        /\ FailingReply(j) => (Returned(j) /\ Failed(j))
        /\ Returned(j) => ij_result[j] # Pending
        /\ Failed(j) <=> ij_error[j] # NoError
        /\ ij_pc[j] = "done" => ij_sent[j] = (IF Failed(j) THEN "sorry" ELSE "file")

\* C9: after a transport failure of a GET /history the call has ended with
\* BackendUnavailable: no request is in flight, none to the file view was
\* made, and no bytes are returned.
C9_PollTransportFailureEndsCall ==
    \A j \in Jobs :
        ij_last[j] = Reply("poll", "transport_error", "none")
            => (Returned(j) /\ Failed(j) /\ Kind(j) = "BackendUnavailable"
                  /\ ij_views[j] = 0)

\* A poll other than the first failed in transport, and photo has answered.
C9_Witness ==
    \E j \in Jobs :
        /\ ij_last[j] = Reply("poll", "transport_error", "none")
        /\ ij_polls[j] >= 2
        /\ ij_pc[j] = "done"

\* What "the GET carries filename and subfolder as query parameters" means:
\* the query sent, read by the rules of a URL query string.  The fields are
\* separated by '&', a field is key=value, and a key given more than once is
\* read at its first field.  Percent escapes and '+' are not decoded here:
\* FileNames and SubFolders hold neither.
RECURSIVE Fields(_)
Fields(q) ==
    LET k == Find(q, "&")
    IN  IF k = 0 THEN <<q>>
        ELSE <<SubSeq(q, 1, k - 1)>> \o Fields(SubSeq(q, k + 1, Len(q)))

\* The value read for `key` (a sequence of characters); Missing when no
\* field has the key.
Missing == <<"missing">>

RECURSIVE ParamFrom(_, _, _)
ParamFrom(fields, key, i) ==
    IF i > Len(fields) THEN Missing
    ELSE LET kv == Split1(fields[i], "=")
         IN  IF kv[1] = key
             THEN (IF Len(kv) = 2 THEN kv[2] ELSE <<>>)
             ELSE ParamFrom(fields, key, i + 1)

QueryParam(q, key) == ParamFrom(Fields(SentQuery(q)), key, 1)

\* C10: the GET to the file view carries the filename and the subfolder of
\* the file reference.
C10_ViewCarriesFileRef ==
    \A j \in Jobs :
        ij_views[j] > 0 =>
            /\ QueryParam(ij_view_query[j], FilenameKey) = ij_image[j].filename
            /\ QueryParam(ij_view_query[j], SubfolderKey) = ij_image[j].subfolder

\* The rest of C10: one GET to the file view per file reference; a success
\* status returns the body as it is, any other reply is RetrievalFailed.
ViewFetchOutcome ==
    \A j \in Jobs :
        /\ ij_image[j].shape = "fileref" => ij_views[j] = 1
        /\ ij_image[j].shape # "fileref" => ij_views[j] = 0
        /\ ij_last[j].req = "view" =>
              /\ Returned(j)
              /\ ij_last[j].reply = "ok" => ij_result[j].tag = "BytesIO"
              /\ ij_last[j].reply # "ok" => (Failed(j) /\ Kind(j) = "RetrievalFailed")

\* The part of an inline string the design decodes: what follows the first
\* comma, or the whole string when it has no comma.
Remainder(s) ==
    IF Find(s, ",") = 0 THEN s ELSE SubSeq(s, Find(s, ",") + 1, Len(s))

\* C11: an inline string is decoded from after its first comma, or as a whole
\* when it has no comma; the call returns the decoded bytes, and fails with
\* MalformedPayload when the remainder does not decode.
C11_InlineStringDecoded ==
    \A j \in Jobs :
        (ij_image[j].shape = "str" /\ Returned(j)) =>
            IF b64decode(Remainder(ij_image[j].s)).ok
            THEN ij_result[j] = BytesIO(b64decode(Remainder(ij_image[j].s)).bytes)
            ELSE Failed(j) /\ Kind(j) = "MalformedPayload"

\* The part of C11 that holds: a string with a comma returns the bytes decoded
\* from what follows the first comma, or fails when that does not decode.
InlineWithHeaderDecoded ==
    \A j \in Jobs :
        (ij_image[j].shape = "str" /\ Returned(j) /\ Find(ij_image[j].s, ",") > 0) =>
            IF b64decode(Remainder(ij_image[j].s)).ok
            THEN ij_result[j] = BytesIO(b64decode(Remainder(ij_image[j].s)).bytes)
            ELSE Failed(j) /\ Kind(j) = "MalformedPayload"

\* C12: a payload that is neither a string nor a file reference ends the call
\* with MalformedPayload in the step that reads it: no GET /view is issued,
\* no bytes are returned, and the job neither polls nor sleeps again.
C12_OtherShapeIsMalformed ==
    [][\A j \in Jobs :
          /\ ij_image'[j].shape \in {"dict_other", "other_type"}
                => /\ Returned(j)' /\ Failed(j)' /\ Kind(j)' = "MalformedPayload"
                   /\ ij_views'[j] = 0
          /\ ij_image[j].shape \in {"dict_other", "other_type"}
                => /\ ij_polls'[j] = ij_polls[j]
                   /\ ij_image'[j] = ij_image[j]]_vars

\* photo has answered two calls, one whose payload was a dict of another
\* shape, one whose payload was of another type.
C12_Witness ==
    \E j, k \in Jobs :
        /\ ij_image[j] = OtherDict /\ ij_pc[j] = "done" /\ ij_sent[j] = "sorry"
        /\ ij_image[k] = OtherType /\ ij_pc[k] = "done" /\ ij_sent[k] = "sorry"

\* A chat task has just rendered its prompt: it went from idle to the await
\* of the inference call of a turn with memory.
Rendered(t) == ct_pc[t] = "idle" /\ ct_pc'[t] = "awaiting" /\ ct_memory'[t]

\* text is the rendering of history h: cut at the newlines it gives one line
\* per message of h, in order, each "{role}: {content}".
IsRenderingOf(text, h) ==
    LET lines == SplitAll(text, "\n")
    IN  /\ Len(lines) = Len(h)
        /\ \A i \in 1..Len(h) :
              lines[i] = <<h[i].role, ": ", ToString(h[i].content)>>

\* C13: the prompt a turn with memory sends is the history as stored at that
\* moment, one line "{role}: {content}" per message, in order, joined by single
\* newlines with none leading or trailing; rendering changes nothing in the
\* store beyond the turn's own append of the user message.
C13_RenderedPrompt ==
    [][\A t \in ChatTasks :
          Rendered(t) =>
              LET u == ct_user'[t]
                  text == ct_prompt'[t].text
              IN  /\ IsRenderingOf(text, conversations'[u])
                  /\ text[1] # "\n" /\ text[Len(text)] # "\n"
                  /\ Len(conversations'[u]) = Len(History(u)) + 1
                  /\ SubSeq(conversations'[u], 1, Len(History(u))) = History(u)
                  /\ \A v \in Users \ {u} : History(v)' = History(v)]_vars

\* A turn awaits the inference call with a prompt of three lines or more,
\* the rendering of the history as it still is.
C13_Witness ==
    \E t \in ChatTasks :
        /\ ct_pc[t] = "awaiting" /\ ct_memory[t]
        /\ Len(SplitAll(ct_prompt[t].text, "\n")) >= 3
        /\ IsRenderingOf(ct_prompt[t].text, conversations[ct_user[t]])

\* C14: after clear for an identity, get returns the empty sequence whatever
\* the history was; the identity is a key of the store with an empty history;
\* a second clear changes nothing in the store; every other identity keeps
\* its history and its place in or out of the keyspace.
C14_ClearEmptiesOneHistory ==
    [][\A u \in Users :
          clear_conversation(u) =>
              /\ get_conversation(conversations', u) = <<>>
              /\ u \in DOMAIN conversations' /\ conversations'[u] = <<>>
              /\ clear_history(conversations', u) = conversations'
              /\ \A v \in Users \ {u} :
                    /\ v \in DOMAIN conversations' <=> v \in DOMAIN conversations
                    /\ History(v)' = History(v)]_vars

\* A history is empty after a clear that followed appends, while another
\* identity holds a history of several messages.
C14_Witness ==
    \E u, v \in Users :
        /\ u # v
        /\ u \in DOMAIN conversations /\ conversations[u] = <<>> /\ appended[u] = <<>>
        /\ Len(History(v)) >= 2
        /\ nops > Len(appended[v]) + 1

\* C15: a GET /history is issued either first, right after the reply to
\* POST /prompt, or at the end of a sleep; the reply to a GET /history never
\* leads straight to another GET /history, and a sleep is followed by the
\* next GET /history: one sleep between any two consecutive polls of a job.
C15_SleepBetweenPolls ==
    [][\A j \in Jobs :
          /\ (ij_pc'[j] = "poll" /\ ij_pc[j] # "poll")
                => \/ ij_pc[j] = "sleep"
                   \/ ij_pc[j] = "post" /\ ij_polls[j] = 0
          /\ ij_polls'[j] # ij_polls[j]
                => (ij_pc[j] \in {"post", "sleep"} /\ ij_pc'[j] = "poll")
          /\ (ij_pc[j] = "poll" /\ ij_last'[j] # ij_last[j]) => ij_pc'[j] # "poll"
          /\ ij_pc[j] = "sleep" => ij_pc'[j] \in {"sleep", "poll"}]_vars

\* A job has issued a poll after a sleep that followed an earlier poll.
C15_Witness ==
    \E j \in Jobs :
        /\ ij_pc[j] = "poll" /\ ij_polls[j] = MaxPolls
        /\ ij_last[j].req = "poll"

\* C20: a GET /history answered with a status other than 200, or with a body
\* that does not hold the job's prompt id, is no failure: the call has not
\* returned and has logged no error, the job sleeps and then polls again.
C20_PollMissIsNotFailure ==
    [][\A j \in Jobs :
          /\ (ij_last'[j] \in {Reply("poll", "bad_status", "none"),
                               Reply("poll", "ok", "absent")})
                => /\ ij_pc'[j] \in {"sleep", "poll"}
                   /\ ij_result'[j] = Pending /\ ij_error'[j] = NoError
          /\ (ij_pc[j] = "poll" /\ ij_pc'[j] # "poll"
                /\ ij_last'[j] \in {Reply("poll", "bad_status", "none"),
                                    Reply("poll", "ok", "absent")})
                => ij_pc'[j] = "sleep"
          /\ ij_pc[j] = "sleep" => ij_pc'[j] \in {"sleep", "poll"}]_vars

\* One job sleeps after a non-success status, another polls again after a
\* body without its prompt id.
C20_Witness ==
    \E j, k \in Jobs :
        /\ ij_pc[j] = "sleep" /\ ij_last[j] = Reply("poll", "bad_status", "none")
        /\ ij_pc[k] = "poll" /\ ij_last[k] = Reply("poll", "ok", "absent")
        /\ ij_polls[k] >= 2

\* The caller of a job was cancelled.
Cancelled(j) == ij_last[j].reply = "cancelled"

\* C16: once the caller is cancelled while the job is suspended in a poll or
\* in the sleep between polls, no further GET /history (nor any other
\* request) is issued; the failure handler does not take the cancellation:
\* nothing is logged, the call returns nothing, and the task has ended there.
C16_CancelStopsPolling ==
    [][\A j \in Jobs :
          /\ Cancelled(j)' => ij_pc'[j] = "cancelled"
          /\ (Cancelled(j)' /\ ij_last'[j].req \in {"poll", "sleep"})
                => /\ ij_error'[j] = NoError
                   /\ ij_result'[j] = Pending
                   /\ ij_sent'[j] = "none"
          /\ Cancelled(j) =>
                /\ Cancelled(j)'
                /\ ij_polls'[j] = ij_polls[j]
                /\ ij_posts'[j] = ij_posts[j]
                /\ ij_views'[j] = ij_views[j]
                /\ ij_sent'[j] = ij_sent[j]]_vars

\* One job was cancelled in a poll and another in the sleep after a poll,
\* while the backend went on to produce the output of the first.
C16_Witness ==
    \E j, k \in Jobs :
        /\ ij_last[j] = Reply("poll", "cancelled", "none") /\ ij_pc[j] = "cancelled"
        /\ ij_last[k] = Reply("sleep", "cancelled", "none") /\ ij_pc[k] = "cancelled"
        /\ ij_polls[k] >= 1
        /\ has_output(ledger[ij_prompt_id[j]])

\* Everything a generate_image call and its photo handler hold.
JobLocals(j) ==
    <<ij_pc[j], ij_prompt_id[j], ij_image[j], ij_view_query[j], ij_result[j],
      ij_error[j], ij_posts[j], ij_polls[j], ij_views[j], ij_sent[j], ij_last[j]>>

\* C17: what a job holds changes only in a step of that job, and such a step
\* changes nothing of any other job and nothing of the chat side; a step of
\* the chat side changes nothing of any job; two jobs never hold the same
\* prompt id, and what a job reads from the history is the entry of its own
\* prompt id.
C17_JobsIndependent ==
    [][/\ \A j \in Jobs :
             JobLocals(j)' # JobLocals(j) =>
                 /\ photo(j) \/ JobStep(j)
                 /\ \A k \in Jobs \ {j} : JobLocals(k)' = JobLocals(k)
                 /\ UNCHANGED chatVars
       /\ chatVars' # chatVars => UNCHANGED imgVars
       /\ \A j \in Jobs :
             /\ \A k \in Jobs \ {j} :
                   ij_prompt_id'[j] # "none" => ij_prompt_id'[j] # ij_prompt_id'[k]
             /\ ij_image'[j] # NoImage
                   => ij_image'[j] = ledger'[ij_prompt_id'[j]].image
             /\ (ij_pc[j] = "poll" /\ ij_pc'[j] # "poll" /\ ij_last'[j].reply = "ok")
                   => ij_last'[j].body = ledger[ij_prompt_id[j]].state]_vars

\* Two jobs have ended differently, each on the entry of its own prompt id,
\* while a chat turn with memory is in flight.
C17_Witness ==
    \E j, k \in Jobs :
        /\ j # k /\ Returned(j) /\ Returned(k)
        /\ ij_image[j].shape = "str" /\ ij_result[j].tag = "BytesIO"
        /\ ij_image[k].shape = "fileref" /\ Failed(k)
        /\ ij_image[j] = ledger[ij_prompt_id[j]].image
        /\ ij_image[k] = ledger[ij_prompt_id[k]].image
        /\ ct_pc["t1"] = "awaiting" /\ ct_memory["t1"]
        /\ conversations # <<>>

\* The last line of a rendered prompt.
LastLine(text) == SplitAll(text, "\n")[Len(SplitAll(text, "\n"))]

\* A chat task has just ended the await of the inference call.
InferenceEnded(t) == ct_pc[t] = "awaiting" /\ ct_pc'[t] = "sending"

\* The log of appends of an identity has just grown by one message of `role`.
JustAppended(u, role) ==
    /\ Len(appended'[u]) = Len(appended[u]) + 1
    /\ SubSeq(appended'[u], 1, Len(appended[u])) = appended[u]
    /\ appended'[u][Len(appended'[u])].role = role

\* C18: a turn with memory appends the user message, then renders, then
\* calls inference, then appends the assistant message: the prompt sent ends
\* with the line of the user message just appended, which is the last message
\* of the history; an assistant message is appended only in the step that ends
\* the inference call of a turn with memory of that identity.  A one-shot turn
\* sends the raw text and appends nothing, before and after the call.
C18_TurnOrder ==
    [][/\ \A t \in ChatTasks :
             /\ Rendered(t) =>
                   LET u == ct_user'[t]
                   IN  /\ JustAppended(u, "user")
                       /\ conversations'[u][Len(conversations'[u])]
                             = Message("user", appended'[u][Len(appended'[u])].content)
                       /\ ct_prompt'[t].kind = "rendered"
                       /\ LastLine(ct_prompt'[t].text)
                             = <<"user", ": ",
                                 ToString(appended'[u][Len(appended'[u])].content)>>
             /\ (ct_pc[t] = "idle" /\ ct_pc'[t] = "awaiting" /\ ~ct_memory'[t])
                   => /\ ct_prompt'[t] = [kind |-> "raw", text |-> RawText]
                      /\ UNCHANGED <<conversations, appended>>
             /\ (InferenceEnded(t) /\ ~ct_memory[t])
                   => UNCHANGED <<conversations, appended>>
       /\ \A u \in Users :
             JustAppended(u, "assistant") =>
                 \E t \in ChatTasks :
                     /\ InferenceEnded(t) /\ ct_memory[t] /\ ct_user[t] = u
                     /\ ct_ret'[t] = "response"
                     /\ ct_prompt[t].kind = "rendered"]_vars

\* One turn with memory awaits inference on a prompt of several lines that
\* ends with its user message, while a one-shot turn awaits on the raw text.
C18_Witness ==
    \E t, o \in ChatTasks :
        /\ ct_pc[t] = "awaiting" /\ ct_memory[t]
        /\ Len(SplitAll(ct_prompt[t].text, "\n")) >= 3
        /\ LastLine(ct_prompt[t].text)[1] = "user"
        /\ ct_pc[o] = "awaiting" /\ ~ct_memory[o] /\ ct_prompt[o].text = RawText
        /\ \E u \in Users : \E i \in 1..Len(appended[u]) : appended[u][i].role = "assistant"

\* C19: when the inference call of a turn with memory fails, the turn returns
\* the apology and the step changes nothing in the store: no assistant message
\* is appended, the user message is not taken back, and the history is not cut
\* to 10.  The call of a turn with memory ends in no other way than with the
\* response and the assistant message appended, or with the apology.
C19_FailureKeepsUserMessage ==
    [][\A t \in ChatTasks :
          (InferenceEnded(t) /\ ct_memory[t]) =>
              \/ /\ ct_ret'[t] = "response"
                 /\ JustAppended(ct_user[t], "assistant")
              \/ /\ ct_ret'[t] = Apology
                 /\ UNCHANGED <<conversations, appended>>]_vars

\* A turn has returned the apology and the history of 11 messages ends with
\* a user message.
C19_Witness ==
    \E t \in ChatTasks, u \in Users :
        /\ ct_pc[t] = "sending" /\ ct_ret[t] = Apology
        /\ Len(History(u)) = HistoryLimit + 1
        /\ History(u)[Len(History(u))].role = "user"
        /\ \A o \in ChatTasks : ct_pc[o] # "awaiting"

====
